---- MODULE Spec2Model ----
(***************************************************************************)
(* TITAN-X Quant Fund Manager: the deterministic scoring engine            *)
(* (src/services/geminiService.ts, src/unnamed/part_006) and the upload    *)
(* handlers of the App components (src/App.tsx, src/unnamed/part_00x).     *)
(*                                                                         *)
(* JavaScript numbers are modelled as exact rationals [num, den] with      *)
(* den >= 0; den = 0 stands for the IEEE specials: num > 0 is +Infinity,   *)
(* num < 0 is -Infinity and num = 0 is NaN.  A field that is absent from   *)
(* a record (undefined) is listed in the record's "missing" set.           *)
(***************************************************************************)
EXTENDS Integers, Sequences, FiniteSets, TLC

VARIABLES
    stock,          \* the StockData record handed to a scoring function
    aiEntry,        \* the narrative entry paired with it
    fn,             \* which scoring function has produced `result` ("none" before)
    result,         \* the TitanAnalysis it returned
    handler,        \* which App component's upload handler is running
    audit,          \* empireAudit / audit is set (non-null)
    rawData,        \* the pasted text of the textarea apps ("" when empty)
    currentView,    \* the view state of the component
    analyzedStocks, \* the published result list (analyzedStocks / results)
    publisher,      \* the run whose list is published (0: the initial list)
    error,          \* the error state ("null" when null)
    isProcessing,   \* isProcessing / loading
    peaceStatus,    \* the status line of the audit/dashboard apps
    progress,       \* the progress line of the upload/results apps
    runs,           \* the upload runs: pc, extracted records, partial results
    nextRun,        \* number of runs started so far
    stocks,         \* the StockData array handed to a whole call
    responseText,   \* response.text of the narrative call, as JSON tokens
    batchFn,        \* which function the whole call was made to ("none" before)
    batchOut        \* its outcome: it threw, or the array it returned

scoreVars == <<stock, aiEntry, fn, result>>
appVars == <<handler, audit, rawData, currentView, analyzedStocks, publisher,
             error, isProcessing, peaceStatus, progress, runs, nextRun>>
batchVars == <<stocks, responseText, batchFn, batchOut>>
vars == <<stock, aiEntry, fn, result, handler, audit, rawData, currentView,
          analyzedStocks, publisher, error, isProcessing, peaceStatus,
          progress, runs, nextRun, stocks, responseText, batchFn, batchOut>>

---------------------------------------------------------------------------
(* JavaScript arithmetic *)

Sign(x) == IF x > 0 THEN 1 ELSE IF x < 0 THEN -1 ELSE 0

\* x / y on numbers: division by zero gives +-Infinity, 0/0 gives NaN
Div(x, y) ==
    IF y = 0 THEN [num |-> Sign(x), den |-> 0]
    ELSE IF y > 0 THEN [num |-> x, den |-> y]
    ELSE [num |-> -x, den |-> -y]

Num(x) == [num |-> x, den |-> 1]
NaN == [num |-> 0, den |-> 0]
IsNaN(r) == r.den = 0 /\ r.num = 0
IsFinite(r) == r.den > 0

\* r < pn/pd, r > pn/pd, r >= pn/pd (pd > 0); every comparison with NaN is false
Lt(r, pn, pd) == IF r.den = 0 THEN r.num < 0 ELSE r.num * pd < pn * r.den
Gt(r, pn, pd) == IF r.den = 0 THEN r.num > 0 ELSE r.num * pd > pn * r.den
Ge(r, pn, pd) == IF r.den = 0 THEN r.num > 0 ELSE r.num * pd >= pn * r.den

\* `s.f || 0` : undefined and 0 both give the default
OrDefault(s, f, d) == IF f \in s.missing \/ s[f] = 0 THEN d ELSE s[f]

---------------------------------------------------------------------------
(* Verdicts (src/types.ts) *)

GOD_MODE_BUY == "GOD_MODE_BUY"
BUY == "BUY"
HOLD == "HOLD"
AVOID == "AVOID"
DESTROY == "DESTROY"
TitanVerdict == {GOD_MODE_BUY, BUY, HOLD, AVOID, DESTROY}

---------------------------------------------------------------------------
(* Narrative entries *)

\* the object used when the narrative array has no entry for the record
DefaultAiData ==
    [moatType |-> "Unknown", isMonopoly |-> FALSE, riskGrade |-> 5,
     additionalFlags |-> <<>>]

\* aiResults[index] || {...} : an absent entry is [present |-> FALSE]
AiOrDefault(e) ==
    IF e.present
    THEN [moatType |-> e.moatType, isMonopoly |-> e.isMonopoly,
          riskGrade |-> e.riskGrade, additionalFlags |-> e.additionalFlags]
    ELSE DefaultAiData

---------------------------------------------------------------------------
(* Deterministic red flags pushed by the firewall *)

FlagOwnership == "OWNERSHIP"
FlagDebt == "DEBT"
FlagEps == "EPS"
DeterministicFlags == {FlagOwnership, FlagDebt, FlagEps}

Cond(b, flag) == IF b THEN <<flag>> ELSE <<>>

\* pe < 15 ? "Sosta" : pe > 25 ? "Dami" : "Fair"
ValuationStatus(pe) ==
    IF Lt(pe, 15, 1) THEN "Sosta" ELSE IF Gt(pe, 25, 1) THEN "Dami" ELSE "Fair"

\* mutant: the division without its zero guard
PeGeminiUnguarded(ltp, eps) == Div(ltp, eps)

\* const pe = eps !== 0 ? ltp / eps : 999
PeGemini(ltp, eps) == IF eps # 0 THEN Div(ltp, eps) ELSE Num(999)

\* stock.dividendPercent ? (10 * (dividendPercent / 100) * 100) / ltp
\*                       : (stock.dividendYield || 0)
DivYield(s, ltp) ==
    IF s.dividendPercent # 0 THEN Div(10 * s.dividendPercent, ltp)
    ELSE Num(s.dividendYield)

---------------------------------------------------------------------------
(* analyzeStocksWithGemini: the body of stocks.map((stock, index) => ...)  *)
(* for one record and the narrative entry at its index                     *)

\* mutant: the leverage rule left out of the firewall
BatchFirewallNoLeverage(director, debtToEquity, eps) ==
    ~(director < 15) /\ ~(eps <= 0)

BatchFirewallPassed(director, debtToEquity, eps) ==
    ~(director < 15) /\ ~Gt(debtToEquity, 1, 1) /\ ~(eps <= 0)

\* mutant: the moat weight mistyped as 50
BatchRawScoreHeavyMoat(debt, isMonopoly, pe) ==
      (IF debt = 0 THEN 50 ELSE 0)
    + (IF isMonopoly THEN 50 ELSE 0)
    + (IF Lt(pe, 10, 1) THEN 20 ELSE 0)

\* mutant: the valuation weight mistyped as 30
BatchRawScoreHeavyValuation(debt, isMonopoly, pe) ==
      (IF debt = 0 THEN 50 ELSE 0)
    + (IF isMonopoly THEN 30 ELSE 0)
    + (IF Lt(pe, 10, 1) THEN 30 ELSE 0)

BatchRawScore(debt, isMonopoly, pe) ==
      (IF debt = 0 THEN 50 ELSE 0)
    + (IF isMonopoly THEN 30 ELSE 0)
    + (IF Lt(pe, 10, 1) THEN 20 ELSE 0)

BatchFailScore(score) == 0

\* mutant: the BUY threshold of the per-stock variant
BatchVerdictBuyAt60(firewallPassed, score) ==
    IF ~firewallPassed THEN DESTROY
    ELSE IF score >= 80 THEN GOD_MODE_BUY
    ELSE IF score >= 60 THEN BUY
    ELSE IF score >= 30 THEN HOLD
    ELSE AVOID

BatchVerdict(firewallPassed, score) ==
    IF ~firewallPassed THEN DESTROY
    ELSE IF score >= 80 THEN GOD_MODE_BUY
    ELSE IF score >= 50 THEN BUY
    ELSE IF score >= 30 THEN HOLD
    ELSE AVOID

analyzeStocksWithGemini(s, e) ==
    LET aiData == AiOrDefault(e)
        ltp == OrDefault(s, "ltp", 0)
        eps == OrDefault(s, "eps", 0)
        nav == OrDefault(s, "nav", 1)
        debt == OrDefault(s, "debt", 0)
        director == OrDefault(s, "directorHolding", 0)
        pe == PeGemini(ltp, eps)
        roe == Div(eps * 100, nav)
        divYield == DivYield(s, ltp)
        debtToEquity == Div(debt, nav)
        firewallPassed == BatchFirewallPassed(director, debtToEquity, eps)
        detFlags == Cond(director < 15, FlagOwnership)
                    \o Cond(Gt(debtToEquity, 1, 1), FlagDebt)
                    \o Cond(eps <= 0, FlagEps)
        raw == BatchRawScore(debt, aiData.isMonopoly, pe)
        score == IF firewallPassed THEN raw ELSE BatchFailScore(raw)
    IN [ticker |-> s.ticker,
        pe |-> pe, roe |-> roe, dividendYield |-> divYield,
        debtToEquity |-> debtToEquity,
        score |-> score,
        riskGrade |-> aiData.riskGrade,
        verdict |-> BatchVerdict(firewallPassed, score),
        valuationStatus |-> ValuationStatus(pe),
        moatType |-> aiData.moatType,
        redFlags |-> detFlags \o aiData.additionalFlags,
        lossPreventionFirewall |-> firewallPassed]

---------------------------------------------------------------------------
(* analyzeStockWithGemini: the per-stock variant *)

\* mutant: low ownership only flagged, not disqualifying
SingleFirewallWarnOwnership(director, debtToEquity, eps) ==
    ~Gt(debtToEquity, 1, 1) /\ ~(eps <= 0)

SingleFirewallPassed(director, debtToEquity, eps) ==
    ~Gt(debtToEquity, 1, 1) /\ ~(director < 15) /\ ~(eps <= 0)

SingleRawScore(debt, debtToEquity, pe, isMonopoly) ==
      (IF debt = 0 THEN 50
       ELSE IF Lt(debtToEquity, 3, 10) THEN 30
       ELSE IF Lt(debtToEquity, 1, 2) THEN 10 ELSE 0)
    + (IF Lt(pe, 10, 1) THEN 20 ELSE IF Lt(pe, 15, 1) THEN 10 ELSE 0)
    + (IF isMonopoly THEN 30 ELSE 0)

\* mutant: the score of a firewall failure left as earned
SingleFailScoreUnclamped(score) == score

\* score = Math.min(score, 20)
SingleFailScore(score) == IF score < 20 THEN score ELSE 20

\* mutant: the yield and holding gate of GOD_MODE_BUY left out
SingleVerdictNoGate(firewallPassed, score, divYield, director) ==
    IF ~firewallPassed THEN DESTROY
    ELSE IF score >= 80 THEN GOD_MODE_BUY
    ELSE IF score >= 60 THEN BUY
    ELSE IF score >= 40 THEN HOLD
    ELSE AVOID

\* mutant: the holding gate of GOD_MODE_BUY made strict
SingleVerdictStrictHolding(firewallPassed, score, divYield, director) ==
    IF ~firewallPassed THEN DESTROY
    ELSE IF score >= 80 /\ Ge(divYield, 7, 1) /\ director > 30 THEN GOD_MODE_BUY
    ELSE IF score >= 60 THEN BUY
    ELSE IF score >= 40 THEN HOLD
    ELSE AVOID

SingleVerdict(firewallPassed, score, divYield, director) ==
    IF ~firewallPassed THEN DESTROY
    ELSE IF score >= 80 /\ Ge(divYield, 7, 1) /\ director >= 30 THEN GOD_MODE_BUY
    ELSE IF score >= 60 THEN BUY
    ELSE IF score >= 40 THEN HOLD
    ELSE AVOID

\* JSON.parse(response.text || "{}") : with no narrative object every field
\* is undefined (isMonopoly falsy, no additionalFlags)
SingleAiData(e) ==
    IF e.present
    THEN [moatType |-> e.moatType, isMonopoly |-> e.isMonopoly,
          riskGrade |-> e.riskGrade, additionalFlags |-> e.additionalFlags]
    ELSE [moatType |-> "undefined", isMonopoly |-> FALSE, riskGrade |-> 0,
          additionalFlags |-> <<>>]

analyzeStockWithGemini(s, e) ==
    LET aiData == SingleAiData(e)
        ltp == OrDefault(s, "ltp", 0)
        eps == OrDefault(s, "eps", 0)
        nav == OrDefault(s, "nav", 1)
        debt == OrDefault(s, "debt", 0)
        director == OrDefault(s, "directorHolding", 0)
        pe == PeGemini(ltp, eps)
        roe == IF nav # 0 THEN Div(eps * 100, nav) ELSE Num(0)
        debtToEquity == Div(debt, IF nav = 0 THEN 1 ELSE nav)
        divYield == DivYield(s, ltp)
        firewallPassed == SingleFirewallPassed(director, debtToEquity, eps)
        detFlags == Cond(Gt(debtToEquity, 1, 1), FlagDebt)
                    \o Cond(director < 15, FlagOwnership)
                    \o Cond(eps <= 0, FlagEps)
        raw == SingleRawScore(debt, debtToEquity, pe, aiData.isMonopoly)
        score == IF firewallPassed THEN raw ELSE SingleFailScore(raw)
    IN [ticker |-> s.ticker,
        pe |-> pe, roe |-> roe, dividendYield |-> divYield,
        debtToEquity |-> debtToEquity,
        score |-> score,
        riskGrade |-> aiData.riskGrade,
        verdict |-> SingleVerdict(firewallPassed, score, divYield, director),
        valuationStatus |-> ValuationStatus(pe),
        moatType |-> aiData.moatType,
        redFlags |-> detFlags \o aiData.additionalFlags,
        lossPreventionFirewall |-> firewallPassed]

---------------------------------------------------------------------------
(* analyzeStocks: the rule-based variants.  They read the record's fields  *)
(* without defaulting them, so comparisons with an undefined field are     *)
(* false and arithmetic on it gives NaN.                                   *)

Has(s, f) == f \notin s.missing

\* const pe = s.eps > 0 ? s.ltp / s.eps : 0
PeStocks(s) == IF Has(s, "eps") /\ s.eps > 0 THEN Div(s.ltp, s.eps) ELSE Num(0)

\* const roe = s.nav > 0 ? (s.eps / s.nav) * 100 : 0
RoeStocks(s) ==
    IF s.nav > 0
    THEN (IF Has(s, "eps") THEN Div(s.eps * 100, s.nav) ELSE NaN)
    ELSE Num(0)

\* const d2e = s.nav > 0 ? s.debt / (s.nav * 100) : 0
D2eStocks(s) == IF s.nav > 0 THEN Div(s.debt, s.nav * 100) ELSE Num(0)

\* Math.sqrt(x) is kept as its argument (root = TRUE); a plain number has
\* root = FALSE.  The square root of a positive number is positive.
SqrtOf(r) == [root |-> TRUE, arg |-> r]
Plain(r) == [root |-> FALSE, arg |-> r]
IsPositive(v) == v.arg.den > 0 /\ v.arg.num > 0

\* (s.eps > 0 && s.nav > 0) ? Math.sqrt(22.5 * s.eps * s.nav) : 0
GrahamValue(s) ==
    IF Has(s, "eps") /\ s.eps > 0 /\ s.nav > 0
    THEN SqrtOf(Div(45 * s.eps * s.nav, 2))
    ELSE Plain(Num(0))

\* mutant: the lower end of the fallback range
FairValueAt80(s, grahamValue) ==
    IF IsPositive(grahamValue) THEN grahamValue ELSE Plain(Div(8 * s.ltp, 10))

\* grahamValue > 0 ? grahamValue : s.ltp * 0.9
FairValue(s, grahamValue) ==
    IF IsPositive(grahamValue) THEN grahamValue ELSE Plain(Div(9 * s.ltp, 10))

\* the default object of aiResults.find(...) || {...}
StocksAiMatch(e, defaultMoat) ==
    IF e.present
    THEN [moatType |-> e.moatType, riskGrade |-> e.riskGrade,
          redFlags |-> e.additionalFlags]
    ELSE [moatType |-> defaultMoat, riskGrade |-> 5, redFlags |-> <<>>]

(* src/services/geminiService.ts, analyzeStocks *)

SvcDebtRisk(d2e) ==
    IF Gt(d2e, 12, 10) THEN "TOXIC"
    ELSE IF Gt(d2e, 8, 10) THEN "HIGH"
    ELSE IF Gt(d2e, 4, 10) THEN "MEDIUM"
    ELSE "LOW"

\* if (s.eps <= 0 || s.directorHolding < 20 || d2e > 1.5) firewallFailed = true
SvcFirewallFailed(s, d2e) ==
    \/ (Has(s, "eps") /\ s.eps <= 0)
    \/ s.directorHolding < 20
    \/ Gt(d2e, 15, 10)

SvcScore(s, pe, roe, debtRisk) ==
      (IF Gt(roe, 20, 1) THEN 40 ELSE IF Gt(roe, 15, 1) THEN 30 ELSE 15)
    + (IF Gt(pe, 0, 1) /\ Lt(pe, 12, 1) THEN 30
       ELSE IF Lt(pe, 18, 1) THEN 15 ELSE 5)
    + (IF s.directorHolding > 50 THEN 20 ELSE 10)
    + (IF debtRisk = "LOW" THEN 10 ELSE 0)

SvcVerdict(firewallFailed, score) ==
    IF firewallFailed THEN DESTROY
    ELSE IF score >= 80 THEN GOD_MODE_BUY
    ELSE IF score >= 60 THEN BUY
    ELSE IF score >= 40 THEN HOLD
    ELSE AVOID

analyzeStocks(s, e) ==
    LET aiMatch == StocksAiMatch(e, "General")
        pe == PeStocks(s)
        roe == RoeStocks(s)
        d2e == D2eStocks(s)
        debtRisk == SvcDebtRisk(d2e)
        firewallFailed == SvcFirewallFailed(s, d2e)
        score == IF ~firewallFailed THEN SvcScore(s, pe, roe, debtRisk) ELSE 0
    IN [ticker |-> s.ticker,
        score |-> score,
        verdict |-> SvcVerdict(firewallFailed, score),
        moatType |-> aiMatch.moatType,
        riskGrade |-> aiMatch.riskGrade,
        redFlags |-> aiMatch.redFlags,
        intrinsicValue |-> GrahamValue(s),
        fairValue |-> FairValue(s, GrahamValue(s)),
        debtRisk |-> debtRisk,
        pe |-> pe, roe |-> roe, debtToEquity |-> d2e,
        firewallFailed |-> firewallFailed]

(* src/unnamed/part_006, analyzeStocks *)

QuantDebtRisk(d2e) ==
    IF Gt(d2e, 12, 10) THEN "TOXIC"
    ELSE IF Gt(d2e, 7, 10) THEN "HIGH"
    ELSE IF Gt(d2e, 3, 10) THEN "MEDIUM"
    ELSE "LOW"

\* mutant: the ownership threshold of the other variants
QuantFirewallFailedAt15(s, d2e) ==
    \/ (Has(s, "eps") /\ s.eps <= 0)
    \/ s.directorHolding < 15
    \/ Gt(d2e, 15, 10)

QuantFirewallFailed(s, d2e) ==
    \/ (Has(s, "eps") /\ s.eps <= 0)
    \/ s.directorHolding < 25
    \/ Gt(d2e, 15, 10)

QuantScore(s, pe, roe, debtRisk) ==
      (IF Gt(roe, 15, 1) THEN 40 ELSE IF Gt(roe, 10, 1) THEN 20 ELSE 0)
    + (IF Gt(pe, 0, 1) /\ Lt(pe, 15, 1) THEN 30
       ELSE IF Lt(pe, 22, 1) THEN 15 ELSE 0)
    + (IF s.directorHolding > 40 THEN 20 ELSE 10)
    + (IF debtRisk = "LOW" THEN 10 ELSE 0)

QuantVerdict(firewallFailed, score) ==
    IF firewallFailed THEN DESTROY
    ELSE IF score >= 75 THEN GOD_MODE_BUY
    ELSE IF score >= 55 THEN BUY
    ELSE IF score >= 35 THEN HOLD
    ELSE AVOID

analyzeStocksQuant(s, e) ==
    LET aiMatch == StocksAiMatch(e, "Unknown")
        pe == PeStocks(s)
        roe == RoeStocks(s)
        d2e == D2eStocks(s)
        debtRisk == QuantDebtRisk(d2e)
        firewallFailed == QuantFirewallFailed(s, d2e)
        score == IF ~firewallFailed THEN QuantScore(s, pe, roe, debtRisk) ELSE 0
    IN [ticker |-> s.ticker,
        score |-> score,
        verdict |-> QuantVerdict(firewallFailed, score),
        moatType |-> aiMatch.moatType,
        riskGrade |-> aiMatch.riskGrade,
        redFlags |-> aiMatch.redFlags,
        intrinsicValue |-> GrahamValue(s),
        fairValue |-> FairValue(s, GrahamValue(s)),
        debtRisk |-> debtRisk,
        pe |-> pe, roe |-> roe, debtToEquity |-> d2e,
        firewallFailed |-> firewallFailed]

---------------------------------------------------------------------------
(* Inputs of the scoring functions *)

LtpVals == {0, 18, 24, 60}
EpsVals == {-2, 0, 2, 4, 5}
NavVals == {0, 10, 20, 25}
DebtVals == {0, 4, 10, 15, 1500, 2000}
DirectorVals == {10, 15, 20, 30, 60}
CategoryVals == {"A", "Z"}
DividendPercentVals == {0, 20}
MissingVals == {{}, {"eps"}}

Stocks ==
    { [ticker |-> "T1", ltp |-> l, eps |-> e, nav |-> n, debt |-> d,
       directorHolding |-> h, category |-> c, dividendPercent |-> p,
       dividendYield |-> 0, missing |-> m] :
        l \in LtpVals, e \in EpsVals, n \in NavVals, d \in DebtVals,
        h \in DirectorVals, c \in CategoryVals, p \in DividendPercentVals,
        m \in MissingVals }

\* a record whose eps is undefined carries no eps value of its own
WellFormed(s) == ("eps" \in s.missing) => s.eps = 0

AiEntries ==
    { [present |-> FALSE] } \cup
    { [present |-> TRUE, ticker |-> "T1", moatType |-> "Monopoly",
       isMonopoly |-> TRUE, riskGrade |-> 2, additionalFlags |-> <<>>],
      [present |-> TRUE, ticker |-> "T1", moatType |-> "Oligopoly",
       isMonopoly |-> FALSE, riskGrade |-> 7,
       additionalFlags |-> <<"AI_FLAG">>] }

NoResult == [ticker |-> "none"]

\* the outcome of a whole call, and the state before any call is made
NoOutcome == [threw |-> FALSE, results |-> <<>>]
BatchIdle ==
    /\ stocks = <<>>
    /\ responseText = <<>>
    /\ batchFn = "none"
    /\ batchOut = NoOutcome

MaxRuns == 2

\* a run before it starts: `extracted` records that the extraction call of
\* the run has returned (`parsed` is then what it returned)
NoRun == [pc |-> "idle", extracted |-> FALSE, parsed |-> <<>>, results |-> <<>>]

\* the component state right after construction (the useState initialisers)
InitialView(h) ==
    IF h = "onFileUpload" THEN "none"
    ELSE IF h = "handleFileUpload" THEN "audit"
    ELSE "upload"

AppInit(h) ==
    /\ handler = h
    /\ audit = FALSE
    /\ rawData = ""
    /\ currentView = InitialView(h)
    /\ analyzedStocks = <<>>
    /\ publisher = 0
    /\ error = "null"
    /\ isProcessing = FALSE
    /\ peaceStatus = IF h = "handleFileUpload" THEN "ARMED" ELSE ""
    /\ progress = ""
    /\ runs = [r \in 1..MaxRuns |-> NoRun]
    /\ nextRun = 0

InitScore ==
    /\ stock \in {s \in Stocks : WellFormed(s)}
    /\ aiEntry \in AiEntries
    /\ fn = "none"
    /\ result = NoResult
    /\ AppInit("none")
    /\ BatchIdle

RunBatch ==
    /\ fn = "none"
    /\ fn' = "analyzeStocksWithGemini"
    /\ result' = analyzeStocksWithGemini(stock, aiEntry)
    /\ UNCHANGED <<stock, aiEntry>>
    /\ UNCHANGED <<appVars, batchVars>>

RunSingle ==
    /\ fn = "none"
    /\ fn' = "analyzeStockWithGemini"
    /\ result' = analyzeStockWithGemini(stock, aiEntry)
    /\ UNCHANGED <<stock, aiEntry>>
    /\ UNCHANGED <<appVars, batchVars>>

RunStocks ==
    /\ fn = "none"
    /\ fn' = "analyzeStocks"
    /\ result' = analyzeStocks(stock, aiEntry)
    /\ UNCHANGED <<stock, aiEntry>>
    /\ UNCHANGED <<appVars, batchVars>>

RunStocksQuant ==
    /\ fn = "none"
    /\ fn' = "analyzeStocksQuant"
    /\ result' = analyzeStocksQuant(stock, aiEntry)
    /\ UNCHANGED <<stock, aiEntry>>
    /\ UNCHANGED <<appVars, batchVars>>

NextScore == RunBatch \/ RunSingle \/ RunStocks \/ RunStocksQuant

SpecScore == InitScore /\ [][NextScore]_vars

GeminiFns == {"analyzeStocksWithGemini", "analyzeStockWithGemini"}
StocksFns == {"analyzeStocks", "analyzeStocksQuant"}
Scored == fn # "none"

\* the firewall outcome of whichever function ran
FirewallFailed ==
    IF fn \in GeminiFns THEN ~result.lossPreventionFirewall
    ELSE result.firewallFailed

TypeOKScore ==
    Scored => /\ result.score \in Int
              /\ result.verdict \in TitanVerdict

\* the record's fields as the Gemini functions read them (after `|| default`)
InEps == OrDefault(stock, "eps", 0)
InDebt == OrDefault(stock, "debt", 0)
InDirector == OrDefault(stock, "directorHolding", 0)
InMonopoly == aiEntry.present /\ aiEntry.isMonopoly

---------------------------------------------------------------------------
(* Claims about the scoring functions, checked under SpecScore *)

\* C1 (as claimed): a record with exchange category "Z" always receives
\* verdict DESTROY, whatever its other fields are, in every scoring function.
C1_CategoryZDestroyed ==
    (Scored /\ stock.category = "Z") => result.verdict = DESTROY

\* C2: whenever the firewall fails for a record, the verdict is DESTROY and
\* the score is near zero (at most 20), whatever points the record earns.
C2_FirewallForcesDestroy ==
    (Scored /\ FirewallFailed) =>
        /\ result.verdict = DESTROY
        /\ result.score >= 0
        /\ result.score <= 20
        /\ (fn # "analyzeStockWithGemini" => result.score = 0)

\* a firewall-failed record that had earned more than 20 points
C2_Witness ==
    /\ fn = "analyzeStockWithGemini"
    /\ FirewallFailed
    /\ InDebt = 0 /\ InMonopoly
    /\ result.score = 20
    /\ result.verdict = DESTROY

\* C3: for every record and narrative entry the score lies in [0, 100].
C3_ScoreInRange ==
    Scored => (result.score >= 0 /\ result.score <= 100)

\* a record that earns every point of the 50 + 30 + 20 weighting
C3_Witness ==
    /\ fn = "analyzeStocksWithGemini"
    /\ ~FirewallFailed
    /\ InDebt = 0 /\ InMonopoly
    /\ result.score = 100

\* the precondition of C5: debt 0, monopoly, P/E below 10, firewall passed
C5_Perfect ==
    /\ fn \in GeminiFns
    /\ InDebt = 0
    /\ InMonopoly
    /\ Lt(result.pe, 10, 1)
    /\ result.lossPreventionFirewall

\* C5 (as claimed): such a record scores exactly 100 and receives
\* GOD_MODE_BUY in both Gemini scoring functions.
C5_PerfectIsGodMode ==
    C5_Perfect => (result.score = 100 /\ result.verdict = GOD_MODE_BUY)

\* C5 (amended): such a record scores exactly 100 in both functions; it
\* receives GOD_MODE_BUY in analyzeStocksWithGemini, and in
\* analyzeStockWithGemini it receives GOD_MODE_BUY when dividend yield >= 7
\* and holding >= 30, and BUY otherwise.
C5_PerfectScoresHundred ==
    C5_Perfect =>
        /\ result.score = 100
        /\ (fn = "analyzeStocksWithGemini" => result.verdict = GOD_MODE_BUY)
        /\ (fn = "analyzeStockWithGemini" =>
               result.verdict =
                 IF Ge(result.dividendYield, 7, 1) /\ InDirector >= 30
                 THEN GOD_MODE_BUY ELSE BUY)

C5_Witness ==
    /\ C5_Perfect
    /\ fn = "analyzeStockWithGemini"
    /\ InDirector = 20
    /\ result.score = 100
    /\ result.verdict = BUY

\* no rule other than ownership triggers in the function that ran
OtherRulesPass ==
    /\ Has(stock, "eps") /\ stock.eps > 0
    /\ IF fn \in GeminiFns THEN ~Gt(result.debtToEquity, 1, 1)
       ELSE ~Gt(result.debtToEquity, 15, 10)

\* C6 (as claimed): holding 10 always fails the firewall and holding 20
\* never fails it on the ownership rule alone, in every scoring function.
C6_OwnershipThreshold15 ==
    Scored =>
        /\ (stock.directorHolding = 10 => FirewallFailed)
        /\ ((stock.directorHolding = 20 /\ OtherRulesPass) => ~FirewallFailed)

\* C6 (amended): holding 10 always fails the firewall in every scoring
\* function; holding 20 with positive EPS and leverage within limit passes
\* in analyzeStocksWithGemini, analyzeStockWithGemini (threshold 15) and the
\* geminiService.ts analyzeStocks (threshold 20), and fails in the part_006
\* analyzeStocks, whose ownership threshold is 25.
C6_OwnershipThresholdPerVariant ==
    Scored =>
        /\ (stock.directorHolding = 10 => FirewallFailed)
        /\ ((stock.directorHolding = 20 /\ OtherRulesPass) =>
               (FirewallFailed <=> fn = "analyzeStocksQuant"))
        /\ ((stock.directorHolding = 15 /\ OtherRulesPass) =>
               (FirewallFailed <=> fn \in StocksFns))

C6_Witness ==
    /\ fn = "analyzeStocksQuant"
    /\ stock.directorHolding = 20
    /\ OtherRulesPass
    /\ result.firewallFailed
    /\ result.verdict = DESTROY

\* debt divided by net-asset-value equals 1.5
RatioOneAndHalf == stock.nav # 0 /\ 2 * stock.debt = 3 * stock.nav

\* C7 (as claimed): a record whose debt / NAV equals 1.5 always fails the
\* firewall on the leverage rule, in every scoring function.
C7_LeverageAlwaysFails ==
    (Scored /\ RatioOneAndHalf) => FirewallFailed

\* C7 (amended): a record whose debt / NAV equals 1.5 always fails the
\* firewall on the leverage rule in analyzeStocksWithGemini and
\* analyzeStockWithGemini; in the analyzeStocks variants leverage is
\* debt / (NAV * 100) with threshold 1.5, so the leverage rule does not
\* trigger and the record fails only on EPS <= 0 or on the ownership rule.
C7_LeverageFailsInGemini ==
    (Scored /\ RatioOneAndHalf) =>
        /\ (fn \in GeminiFns =>
               /\ FirewallFailed
               /\ \E i \in 1..Len(result.redFlags) : result.redFlags[i] = FlagDebt)
        /\ (fn = "analyzeStocks" =>
               (FirewallFailed <=>
                  (Has(stock, "eps") /\ stock.eps <= 0)
                  \/ stock.directorHolding < 20))
        /\ (fn = "analyzeStocksQuant" =>
               (FirewallFailed <=>
                  (Has(stock, "eps") /\ stock.eps <= 0)
                  \/ stock.directorHolding < 25))

C7_Witness ==
    /\ fn = "analyzeStocks"
    /\ RatioOneAndHalf
    /\ ~result.firewallFailed
    /\ result.verdict # DESTROY

\* C8 (as claimed): a record with EPS = 0, or whose EPS field is missing,
\* always fails the firewall, whatever its other fields are.
C8_ZeroEpsFailsFirewall ==
    (Scored /\ (~Has(stock, "eps") \/ stock.eps = 0)) => FirewallFailed

\* C9 (as claimed): for every record with EPS <= 0 the P/E computed by the
\* Gemini scoring functions is the sentinel 999, the record is never
\* labelled "Sosta" and it earns no valuation points.
C9_LossMakingSentinel ==
    (fn \in GeminiFns /\ InEps <= 0) =>
        /\ result.pe = Num(999)
        /\ result.valuationStatus # "Sosta"
        /\ ((fn = "analyzeStockWithGemini" /\ InDebt # 0 /\ ~InMonopoly
             /\ ~Lt(result.debtToEquity, 1, 2)) => result.score = 0)

SameNumber(a, b) ==
    /\ IsFinite(a) /\ IsFinite(b)
    /\ a.num * b.den = b.num * a.den

\* C21: in both analyzeStocks variants the fair value is the Graham value
\* sqrt(22.5 * EPS * NAV) exactly when EPS and NAV are both strictly
\* positive; otherwise the intrinsic value is 0 and the fair value is the
\* price-based fallback, price * 0.9.
C21_GrahamFairValue ==
    fn \in StocksFns =>
        IF Has(stock, "eps") /\ stock.eps > 0 /\ stock.nav > 0
        THEN /\ result.intrinsicValue.root
             /\ SameNumber(result.intrinsicValue.arg,
                           Div(45 * stock.eps * stock.nav, 2))
             /\ result.fairValue = result.intrinsicValue
        ELSE /\ result.intrinsicValue = Plain(Num(0))
             /\ ~result.fairValue.root
             /\ SameNumber(result.fairValue.arg, Div(9 * stock.ltp, 10))

\* EPS 4 and NAV 25 give sqrt(2250)
C21_Witness ==
    /\ fn \in StocksFns
    /\ stock.eps = 4 /\ stock.nav = 25 /\ Has(stock, "eps")
    /\ result.intrinsicValue.root
    /\ SameNumber(result.intrinsicValue.arg, Num(2250))
    /\ result.fairValue = result.intrinsicValue

\* the record passes the firewall of a Gemini function and earns no
\* valuation points (P/E of 15 or more), resp. no safety points
NoValuationPoints ==
    fn \in GeminiFns /\ result.lossPreventionFirewall /\ ~Lt(result.pe, 15, 1)
NoSafetyPoints == InDebt # 0 /\ ~Lt(result.debtToEquity, 1, 2)

\* C22 (as claimed): the safety component of the score is 50 if and only if
\* debt is exactly zero, 30 when debt is non-zero and debt-to-equity is under
\* 0.3, 10 when it is under 0.5, and zero otherwise (so it never increases
\* with debt-to-equity); read off the score of a record that earns no moat
\* and no valuation points.
C22_SafetyComponent ==
    (NoValuationPoints /\ ~InMonopoly) =>
        result.score =
            (IF InDebt = 0 THEN 50
             ELSE IF Lt(result.debtToEquity, 3, 10) THEN 30
             ELSE IF Lt(result.debtToEquity, 1, 2) THEN 10
             ELSE 0)

\* C23 (as claimed): the moat component of the score is 30 for a monopoly,
\* 15 for an oligopoly, and zero for a commodity, unknown or missing
\* narrative entry; read off the score of a record that earns no safety and
\* no valuation points.
C23_MoatComponent ==
    (NoValuationPoints /\ NoSafetyPoints) =>
        result.score =
            (IF InMonopoly THEN 30
             ELSE IF aiEntry.present /\ aiEntry.moatType = "Oligopoly" THEN 15
             ELSE 0)

\* C24: in analyzeStockWithGemini the verdict is GOD_MODE_BUY if and only if
\* the firewall passes, the score is at least 80, the dividend yield is at
\* least 7 and the director holding is at least 30; a firewall-passing
\* record with score at least 80 that misses the yield or the holding gate
\* receives BUY.
C24_GodModeGate ==
    fn = "analyzeStockWithGemini" =>
        /\ (result.verdict = GOD_MODE_BUY <=>
              /\ result.lossPreventionFirewall
              /\ result.score >= 80
              /\ Ge(result.dividendYield, 7, 1)
              /\ InDirector >= 30)
        /\ (/\ result.lossPreventionFirewall
            /\ result.score >= 80
            /\ ~(Ge(result.dividendYield, 7, 1) /\ InDirector >= 30)
            => result.verdict = BUY)

\* a passing record with at least 80 points and enough holding that misses
\* the yield gate
C24_Witness ==
    /\ fn = "analyzeStockWithGemini"
    /\ result.lossPreventionFirewall
    /\ result.score >= 80
    /\ InDirector >= 30
    /\ ~Ge(result.dividendYield, 7, 1)
    /\ result.verdict = BUY

\* C28: in analyzeStocksWithGemini a record receives GOD_MODE_BUY only if
\* its debt is exactly zero, the narrative entry sets the monopoly flag, and
\* the firewall passed.
C28_GodModeNeedsZeroDebtMonopoly ==
    (fn = "analyzeStocksWithGemini" /\ result.verdict = GOD_MODE_BUY) =>
        /\ InDebt = 0
        /\ InMonopoly
        /\ result.lossPreventionFirewall

\* a GOD_MODE_BUY of analyzeStocksWithGemini reached without valuation points
C28_Witness ==
    /\ fn = "analyzeStocksWithGemini"
    /\ result.verdict = GOD_MODE_BUY
    /\ result.score = 80
    /\ InDebt = 0 /\ InMonopoly

\* the flags the narrative entry supplies
InAiFlags == IF aiEntry.present THEN aiEntry.additionalFlags ELSE <<>>

\* a deterministic firewall flag is in the red-flag list of the result
HasDeterministicFlag ==
    \E i \in 1..Len(result.redFlags) : result.redFlags[i] \in DeterministicFlags

\* C29: in both Gemini scoring functions lossPreventionFirewall is false if
\* and only if the verdict is DESTROY, and if and only if the red-flag list
\* holds at least one deterministic flag (ownership, leverage or
\* profitability); narrative-supplied flags alone leave the firewall passed
\* and never force DESTROY.
C29_FirewallVerdictFlagsAgree ==
    fn \in GeminiFns =>
        /\ (~result.lossPreventionFirewall <=> result.verdict = DESTROY)
        /\ (~result.lossPreventionFirewall <=> HasDeterministicFlag)
        /\ (~(InDirector < 15 \/ InEps <= 0 \/ Gt(result.debtToEquity, 1, 1)) =>
               /\ result.lossPreventionFirewall
               /\ result.verdict # DESTROY)

\* a record with a narrative-supplied flag and no triggered firewall rule
C29_Witness ==
    /\ fn \in GeminiFns
    /\ InAiFlags # <<>>
    /\ Len(result.redFlags) = Len(InAiFlags)
    /\ result.lossPreventionFirewall
    /\ result.verdict # DESTROY

\* C18 (as claimed): the red-flag list holds one deterministic flag per
\* triggered firewall rule in the order ownership, profitability (EPS <= 0),
\* leverage, followed by the narrative-supplied flags.
C18_FlagOrder ==
    fn \in GeminiFns =>
        result.redFlags =
            Cond(InDirector < 15, FlagOwnership)
            \o Cond(InEps <= 0, FlagEps)
            \o Cond(Gt(result.debtToEquity, 1, 1), FlagDebt)
            \o InAiFlags

\* C20: in analyzeStocksWithGemini the verdict is determined by the firewall
\* outcome and the score alone: firewall failed gives DESTROY; otherwise
\* score >= 80 gives GOD_MODE_BUY, score >= 50 BUY, score >= 30 HOLD, and
\* anything lower AVOID.
C20_VerdictTable ==
    fn = "analyzeStocksWithGemini" =>
        /\ result.verdict \in TitanVerdict
        /\ (~result.lossPreventionFirewall => result.verdict = DESTROY)
        /\ (result.lossPreventionFirewall =>
              /\ (result.score >= 80 => result.verdict = GOD_MODE_BUY)
              /\ (result.score >= 50 /\ result.score < 80 =>
                     result.verdict = BUY)
              /\ (result.score >= 30 /\ result.score < 50 =>
                     result.verdict = HOLD)
              /\ (result.score < 30 => result.verdict = AVOID))

\* a record that passes the firewall with 50 points
C20_Witness ==
    /\ fn = "analyzeStocksWithGemini"
    /\ result.lossPreventionFirewall
    /\ result.score = 50
    /\ result.verdict = BUY

---------------------------------------------------------------------------
(* The upload handlers of the App components.                              *)
(*   "onFileUpload"          src/App.tsx:30      (parseStockFile,          *)
(*                                                analyzeStocks)           *)
(*   "handleFileUpload"      src/App.tsx:227     (audit/dashboard app,     *)
(*                                                analyzeStocksWithGemini) *)
(*   "handleFileUploadBatch" src/unnamed/part_002 (upload/results app,     *)
(*                                                analyzeStocksWithGemini) *)
(*   "handleFileUploadLoop"  src/unnamed/part_003 (upload/results app, one *)
(*                                                analyzeStockWithGemini   *)
(*                                                call per record)         *)
(*   "startAnalysis"         src/unnamed/part_004 (textarea app, one       *)
(*                                                analyzeStockWithGemini   *)
(*                                                call per record)         *)
(* A run is one invocation of the handler; it is suspended at each await   *)
(* (file read, extraction call, analysis call) and every other step of the *)
(* handler runs to completion in the action that resumes it.               *)

Handlers == {"onFileUpload", "handleFileUpload", "handleFileUploadBatch",
             "handleFileUploadLoop", "startAnalysis"}
AuditHandlers == {"handleFileUpload"}
ViewHandlers == {"handleFileUploadBatch", "handleFileUploadLoop", "startAnalysis"}
LoopHandlers == {"handleFileUploadLoop", "startAnalysis"}
\* handlers that read a file, and those whose FileReader has an onerror
FileHandlers == Handlers \ {"startAnalysis"}
ReadErrorHandlers == {"handleFileUploadBatch", "handleFileUploadLoop"}
\* handlers that throw when the extraction returns no record
EmptyCheckHandlers == {"handleFileUploadBatch", "handleFileUploadLoop"}
\* handlers that show a progress line
ProgressHandlers == {"handleFileUploadBatch", "handleFileUploadLoop"}

\* records the extraction collaborator may return
StockAAA ==
    [ticker |-> "AAA", ltp |-> 18, eps |-> 2, nav |-> 10, debt |-> 0,
     directorHolding |-> 60, category |-> "A", dividendPercent |-> 20,
     dividendYield |-> 0, missing |-> {}]
StockBBB ==
    [ticker |-> "BBB", ltp |-> 24, eps |-> 2, nav |-> 10, debt |-> 4,
     directorHolding |-> 30, category |-> "A", dividendPercent |-> 0,
     dividendYield |-> 0, missing |-> {}]
StockCCC ==
    [ticker |-> "CCC", ltp |-> 18, eps |-> -2, nav |-> 10, debt |-> 15,
     directorHolding |-> 10, category |-> "Z", dividendPercent |-> 0,
     dividendYield |-> 0, missing |-> {}]
StockDDD ==
    [ticker |-> "DDD", ltp |-> 60, eps |-> 2, nav |-> 10, debt |-> 4,
     directorHolding |-> 30, category |-> "A", dividendPercent |-> 0,
     dividendYield |-> 0, missing |-> {}]

\* parsed.slice(0, 50) of onFileUpload
SliceLimit == 50

\* list.slice(0, n)
Slice(list, n) == SubSeq(list, 1, IF Len(list) < n THEN Len(list) ELSE n)

\* a file with one record more than the slice keeps
BigStock(i) ==
    [ticker |-> ToString(i), ltp |-> 18, eps |-> 2, nav |-> 10, debt |-> 0,
     directorHolding |-> 60, category |-> "A", dividendPercent |-> 0,
     dividendYield |-> 0, missing |-> {}]
BigBatch == [i \in 1..(SliceLimit + 1) |-> BigStock(i)]

ExtractedBatches ==
    {<<>>, <<StockBBB, StockAAA>>, <<StockCCC, StockBBB, StockAAA>>}

\* a batch whose failing record earns more points than its passing record
\* under the per-record scoring
MixedBatch == <<StockDDD, StockCCC>>

\* what the extraction call of a handler may return
BatchesOf(h) ==
    IF h = "onFileUpload" THEN ExtractedBatches \cup {BigBatch}
    ELSE IF h \in LoopHandlers THEN ExtractedBatches \cup {MixedBatch}
    ELSE ExtractedBatches

\* narrative entry the collaborator may return for a record
MonopolyEntry(s) ==
    [present |-> TRUE, ticker |-> s.ticker, moatType |-> "Monopoly",
     isMonopoly |-> TRUE, riskGrade |-> 2, additionalFlags |-> <<>>]
AbsentEntry == [present |-> FALSE]

\* narrative arrays the collaborator may return for a batch: one entry per
\* record in input order, or an empty array
Narratives(batch) ==
    { [i \in 1..Len(batch) |-> MonopolyEntry(batch[i])], <<>> }

\* aiResults[index]
AtIndex(aiResults, i) ==
    IF i <= Len(aiResults) THEN aiResults[i] ELSE AbsentEntry

\* aiResults.find((r) => r.ticker === s.ticker): the first match
FindByTicker(aiResults, ticker) ==
    LET hits == {i \in 1..Len(aiResults) : aiResults[i].ticker = ticker}
    IN IF hits = {} THEN AbsentEntry
       ELSE aiResults[CHOOSE i \in hits : \A j \in hits : i <= j]

\* stocks.map(...) of the batch scoring functions
analyzeStocksWithGeminiAll(batch, aiResults) ==
    [i \in 1..Len(batch) |->
        analyzeStocksWithGemini(batch[i], AtIndex(aiResults, i))]
analyzeStocksAll(batch, aiResults) ==
    [i \in 1..Len(batch) |->
        analyzeStocks(batch[i], FindByTicker(aiResults, batch[i].ticker))]

\* mutant: an insertion that puts the element before the elements of equal
\* score
RECURSIVE InsertByScoreTiesFirst(_, _)
InsertByScoreTiesFirst(sorted, x) ==
    IF sorted = <<>> THEN <<x>>
    ELSE IF Head(sorted).score > x.score
         THEN <<Head(sorted)>> \o InsertByScoreTiesFirst(Tail(sorted), x)
         ELSE <<x>> \o sorted

\* Array.prototype.sort((a, b) => b.score - a.score): stable, by score
\* descending
RECURSIVE InsertByScore(_, _)
InsertByScore(sorted, x) ==
    IF sorted = <<>> THEN <<x>>
    ELSE IF Head(sorted).score >= x.score
         THEN <<Head(sorted)>> \o InsertByScore(Tail(sorted), x)
         ELSE <<x>> \o sorted

RECURSIVE SortByScore(_)
SortByScore(list) ==
    IF list = <<>> THEN <<>>
    ELSE InsertByScore(SortByScore(SubSeq(list, 1, Len(list) - 1)),
                       list[Len(list)])

InitUpload ==
    /\ stock = StockAAA
    /\ aiEntry = AbsentEntry
    /\ fn = "none"
    /\ result = NoResult
    /\ \E h \in Handlers : AppInit(h)
    /\ BatchIdle

\* handleAudit (src/App.tsx:24): the capital form of the first App
handleAudit ==
    /\ handler = "onFileUpload"
    /\ ~audit
    /\ \E liquidCash \in {"", "1000"} :
          audit' = (liquidCash # "")
    /\ UNCHANGED <<rawData, currentView, analyzedStocks, publisher, error,
                   isProcessing, peaceStatus, progress, runs, nextRun, handler>>
    /\ UNCHANGED <<scoreVars, batchVars>>

\* mutant: the form accepted without validation and without keeping the
\* record
handleStartAuditUnvalidated ==
    /\ handler \in AuditHandlers
    /\ currentView = "audit"
    /\ currentView' = "dashboard"
    /\ peaceStatus' = "SECURED"
    /\ UNCHANGED <<audit, rawData, analyzedStocks, publisher, error,
                   isProcessing, progress, runs, nextRun, handler>>
    /\ UNCHANGED <<scoreVars, batchVars>>

\* handleStartAudit (src/App.tsx:211): the form is rendered in the audit view
handleStartAudit ==
    /\ handler \in AuditHandlers
    /\ currentView = "audit"
    /\ \E liquidCash \in {"", "1000"}, oneSkill \in {"", "Alpha"} :
          IF liquidCash = "" \/ oneSkill = ""
          THEN /\ peaceStatus' = "DATA BREACH"
               /\ UNCHANGED <<audit, currentView>>
          ELSE /\ audit' = TRUE
               /\ currentView' = "dashboard"
               /\ peaceStatus' = "SECURED"
    /\ UNCHANGED <<rawData, analyzedStocks, publisher, error, isProcessing,
                   progress, runs, nextRun, handler>>
    /\ UNCHANGED <<scoreVars, batchVars>>

\* the textarea's onChange (src/unnamed/part_004:95)
setRawData ==
    /\ handler = "startAnalysis"
    /\ currentView = "upload"
    /\ \E text \in {"", "data"} : rawData' = text
    /\ UNCHANGED <<audit, currentView, analyzedStocks, publisher, error,
                   isProcessing, peaceStatus, progress, runs, nextRun, handler>>
    /\ UNCHANGED <<scoreVars, batchVars>>

\* the header and back buttons: onClick={() => setCurrentView('upload')}
setViewUpload ==
    /\ handler \in ViewHandlers
    /\ currentView' = "upload"
    /\ UNCHANGED <<audit, rawData, analyzedStocks, publisher, error,
                   isProcessing, peaceStatus, progress, runs, nextRun, handler>>
    /\ UNCHANGED <<scoreVars, batchVars>>

\* whether the control that starts a run can be used in the rendered state
CanStart ==
    IF handler = "onFileUpload" THEN audit
    ELSE IF handler = "handleFileUpload" THEN currentView = "dashboard"
    ELSE currentView = "upload" /\ ~isProcessing

\* the handler up to its first await
Start ==
    /\ handler \in Handlers
    /\ CanStart
    /\ nextRun < MaxRuns
    /\ IF handler = "startAnalysis" /\ rawData = ""
       THEN /\ error' = "Please paste raw data first."
            /\ UNCHANGED <<isProcessing, peaceStatus, progress, runs, nextRun>>
       ELSE /\ isProcessing' = TRUE
            /\ error' = "null"
            /\ peaceStatus' = IF handler \in AuditHandlers
                              THEN "SCANNING" ELSE peaceStatus
            /\ progress' = IF handler \in ProgressHandlers
                           THEN "init" ELSE progress
            /\ nextRun' = nextRun + 1
            /\ runs' = [runs EXCEPT ![nextRun + 1].pc =
                          IF handler \in FileHandlers THEN "read" ELSE "parse"]
    /\ UNCHANGED <<audit, rawData, currentView, analyzedStocks, publisher,
                   handler>>
    /\ UNCHANGED <<scoreVars, batchVars>>

\* mutant: a catch block that also clears what was published
FailClearsResults(r, msg, extracted) ==
    /\ error' = msg
    /\ isProcessing' = FALSE
    /\ peaceStatus' = IF handler \in AuditHandlers THEN "EMERGENCY" ELSE peaceStatus
    /\ progress' = IF handler \in ProgressHandlers THEN "" ELSE progress
    /\ runs' = [runs EXCEPT ![r].pc = "failed", ![r].extracted = extracted]
    /\ analyzedStocks' = <<>>
    /\ publisher' = 0
    /\ UNCHANGED <<audit, rawData, currentView, nextRun, handler>>

\* catch (err) { setError(...) } finally { setIsProcessing(false) }
Fail(r, msg, extracted) ==
    /\ error' = msg
    /\ isProcessing' = FALSE
    /\ peaceStatus' = IF handler \in AuditHandlers THEN "EMERGENCY" ELSE peaceStatus
    /\ progress' = IF handler \in ProgressHandlers THEN "" ELSE progress
    /\ runs' = [runs EXCEPT ![r].pc = "failed", ![r].extracted = extracted]
    /\ UNCHANGED <<audit, rawData, currentView, analyzedStocks, publisher,
                   nextRun, handler>>

\* setAnalyzedStocks(results.sort(...)); setCurrentView('results'); finally
Publish(r, results) ==
    /\ analyzedStocks' = SortByScore(results)
    /\ publisher' = r
    /\ currentView' = IF handler \in ViewHandlers THEN "results" ELSE currentView
    /\ peaceStatus' = IF handler \in AuditHandlers
                      THEN "AUDIT COMPLETE" ELSE peaceStatus
    /\ isProcessing' = FALSE
    /\ progress' = IF handler \in ProgressHandlers THEN "" ELSE progress
    /\ runs' = [runs EXCEPT ![r].pc = "done", ![r].extracted = TRUE,
                             ![r].results = results]
    /\ UNCHANGED <<audit, rawData, error, nextRun, handler>>

\* reader.onload resolves the file promise
ReadDone(r) ==
    /\ runs[r].pc = "read"
    /\ runs' = [runs EXCEPT ![r].pc = "parse"]
    /\ progress' = IF handler \in ProgressHandlers THEN "extract" ELSE progress
    /\ UNCHANGED <<audit, rawData, currentView, analyzedStocks, publisher,
                   error, isProcessing, peaceStatus, nextRun, handler>>
    /\ UNCHANGED <<scoreVars, batchVars>>

\* reader.onerror = reject (only the handlers that set it)
ReadFail(r) ==
    /\ runs[r].pc = "read"
    /\ handler \in ReadErrorHandlers
    /\ Fail(r, "read failed", FALSE)
    /\ UNCHANGED <<scoreVars, batchVars>>

\* the FileReader reports an error and the handler has set no onerror: the
\* promise the handler awaits is never settled, and neither catch nor finally
\* runs
ReadLost(r) ==
    /\ runs[r].pc = "read"
    /\ handler \in FileHandlers \ ReadErrorHandlers
    /\ runs' = [runs EXCEPT ![r].pc = "hung"]
    /\ UNCHANGED <<audit, rawData, currentView, analyzedStocks, publisher,
                   error, isProcessing, peaceStatus, progress, nextRun, handler>>
    /\ UNCHANGED <<scoreVars, batchVars>>

\* the extraction call returns
ParseDone(r) ==
    /\ runs[r].pc = "parse"
    /\ \E batch \in BatchesOf(handler) :
          IF batch = <<>> /\ handler \in EmptyCheckHandlers
          THEN Fail(r, "No readable stock data found.", TRUE)
          ELSE IF batch = <<>> /\ handler \in LoopHandlers
          THEN Publish(r, <<>>)
          ELSE /\ runs' = [runs EXCEPT ![r].pc = "analyze",
                                       ![r].extracted = TRUE,
                                       ![r].parsed = batch]
               /\ progress' = IF handler \in ProgressHandlers
                              THEN "audit" ELSE progress
               /\ UNCHANGED <<audit, rawData, currentView, analyzedStocks,
                              publisher, error, isProcessing, peaceStatus,
                              nextRun, handler>>
    /\ UNCHANGED <<scoreVars, batchVars>>

\* the extraction call throws
ParseFail(r) ==
    /\ runs[r].pc = "parse"
    /\ Fail(r, "extraction failed", FALSE)
    /\ UNCHANGED <<scoreVars, batchVars>>

\* the batch analysis call returns (analyzeStocks / analyzeStocksWithGemini)
AnalyzeDone(r) ==
    /\ runs[r].pc = "analyze"
    /\ handler \notin LoopHandlers
    /\ LET input == IF handler = "onFileUpload"
                    THEN Slice(runs[r].parsed, SliceLimit)
                    ELSE runs[r].parsed
       IN \E ai \in Narratives(input) :
             Publish(r, IF handler = "onFileUpload"
                        THEN analyzeStocksAll(input, ai)
                        ELSE analyzeStocksWithGeminiAll(input, ai))
    /\ UNCHANGED <<scoreVars, batchVars>>

\* one analyzeStockWithGemini call of the per-record loop returns
AnalyzeStep(r) ==
    /\ runs[r].pc = "analyze"
    /\ handler \in LoopHandlers
    /\ LET i == Len(runs[r].results) + 1
           s == runs[r].parsed[i]
       IN \E e \in {MonopolyEntry(s), AbsentEntry} :
            LET results == Append(runs[r].results, analyzeStockWithGemini(s, e))
            IN IF i = Len(runs[r].parsed)
               THEN Publish(r, results)
               ELSE /\ runs' = [runs EXCEPT ![r].results = results]
                    /\ progress' = IF handler \in ProgressHandlers
                                   THEN "audit" ELSE progress
                    /\ UNCHANGED <<audit, rawData, currentView, analyzedStocks,
                                   publisher, error, isProcessing, peaceStatus,
                                   nextRun, handler>>
    /\ UNCHANGED <<scoreVars, batchVars>>

\* the analysis call throws
AnalyzeFail(r) ==
    /\ runs[r].pc = "analyze"
    /\ Fail(r, "analysis failed", TRUE)
    /\ UNCHANGED <<scoreVars, batchVars>>

NextUpload ==
    \/ handleAudit
    \/ handleStartAudit
    \/ setRawData
    \/ setViewUpload
    \/ Start
    \/ \E r \in 1..MaxRuns :
          \/ ReadDone(r)
          \/ ReadFail(r)
          \/ ReadLost(r)
          \/ ParseDone(r)
          \/ ParseFail(r)
          \/ AnalyzeDone(r)
          \/ AnalyzeStep(r)
          \/ AnalyzeFail(r)

SpecUpload == InitUpload /\ [][NextUpload]_vars

\* the event that resumes run r (every awaited step completes or reports
\* failure)
RunStep(r) ==
    \/ ReadDone(r)
    \/ ReadFail(r)
    \/ ReadLost(r)
    \/ ParseDone(r)
    \/ ParseFail(r)
    \/ AnalyzeDone(r)
    \/ AnalyzeStep(r)
    \/ AnalyzeFail(r)

\* the handlers under an event loop that delivers every pending event
SpecUploadLive ==
    /\ InitUpload
    /\ [][NextUpload]_vars
    /\ \A r \in 1..MaxRuns : WF_vars(RunStep(r))

Started(r) == r <= nextRun
Finished(r) == runs[r].pc \in {"done", "failed"}
InFlight(r) == Started(r) /\ ~Finished(r)

---------------------------------------------------------------------------
(* Whole calls of the scoring functions: the narrative response text is    *)
(* parsed and the records are mapped.  response.text is modelled as the    *)
(* sequence of its JSON tokens; <<>> stands for undefined and for "".      *)

\* the code-fence markers of a markdown block (three backquotes, with and
\* without the json tag)
TokFenceJson == [t |-> "fence_json"]
TokFence == [t |-> "fence"]
TokOpen == [t |-> "["]
TokClose == [t |-> "]"]
TokComma == [t |-> ","]
TokObject(e) == [t |-> "object", value |-> e]
\* an object literal cut off in the middle, and text that is not JSON
TokCut == [t |-> "cut"]
TokJunk == [t |-> "junk"]

\* the text is "[" object ("," object)* "]" or "[" "]"
IsArrayText(text) ==
    /\ Len(text) >= 2
    /\ text[1].t = "["
    /\ text[Len(text)].t = "]"
    /\ \/ Len(text) = 2
       \/ /\ Len(text) % 2 = 1
          /\ \A k \in 2..(Len(text) - 1) :
                text[k].t = (IF k % 2 = 0 THEN "object" ELSE ",")

\* what JSON.parse makes of a text: an array of objects, one object, or a
\* SyntaxError (ok = FALSE).  An object has no element at any index.
ParseError == [ok |-> FALSE, kind |-> "none", value |-> <<>>, object |-> [present |-> FALSE]]
ParsedArray(a) == [ok |-> TRUE, kind |-> "array", value |-> a, object |-> [present |-> FALSE]]
ParsedObject(e) == [ok |-> TRUE, kind |-> "object", value |-> <<>>, object |-> e]

JsonParse(text) ==
    IF IsArrayText(text)
    THEN ParsedArray([k \in 1..((Len(text) - 1) \div 2) |-> text[2 * k].value])
    ELSE IF Len(text) = 1 /\ text[1].t = "object" THEN ParsedObject(text[1].value)
    ELSE ParseError

\* text.replace(<fence json>, "").replace(<fence>, ""), both global
IsFence(tok) == tok.t \in {"fence_json", "fence"}
StripFences(text) == SelectSeq(text, LAMBDA tok : ~IsFence(tok))

\* safeJsonParse(text, fallback = [])
safeJsonParse(text) ==
    IF text = <<>> THEN ParsedArray(<<>>)
    ELSE LET clean == JsonParse(StripFences(text))
         IN IF clean.ok THEN clean
            ELSE IF text[1].t = "[" /\ text[Len(text)].t # "]"
            THEN LET closed == JsonParse(text \o <<TokClose>>)
                 IN IF closed.ok THEN closed ELSE ParsedArray(<<>>)
            ELSE ParsedArray(<<>>)

Returned(results) == [threw |-> FALSE, results |-> results]
Threw == [threw |-> TRUE, results |-> <<>>]

\* analyzeStocksWithGemini (part_006): JSON.parse(response.text || "[]"),
\* then stocks.map by index
analyzeStocksWithGeminiCall(input, text) ==
    LET aiResults == IF text = <<>> THEN ParsedArray(<<>>) ELSE JsonParse(text)
    IN IF ~aiResults.ok THEN Threw
       ELSE Returned(analyzeStocksWithGeminiAll(input, aiResults.value))

\* analyzeStocks (geminiService.ts): safeJsonParse(response.text), then
\* stocks.map with aiResults.find; find is not a function of an object, and
\* the try block turns the TypeError into the function's own Error
analyzeStocksCall(input, text) ==
    LET aiResults == safeJsonParse(text)
    IN IF aiResults.kind = "object" /\ input # <<>> THEN Threw
       ELSE Returned(analyzeStocksAll(input, aiResults.value))

analyzeStocksQuantAll(batch, aiResults) ==
    [i \in 1..Len(batch) |->
        analyzeStocksQuant(batch[i], FindByTicker(aiResults, batch[i].ticker))]

\* analyzeStocks (part_006)
analyzeStocksQuantCall(input, text) ==
    LET aiResults == safeJsonParse(text)
    IN IF aiResults.kind = "object" /\ input # <<>> THEN Threw
       ELSE Returned(analyzeStocksQuantAll(input, aiResults.value))

\* analyzeStockWithGemini: JSON.parse(response.text || "{}"); the fields of
\* an array, like those of {}, are undefined
analyzeStockWithGeminiCall(s, text) ==
    LET aiData == IF text = <<>> THEN ParsedObject(AbsentEntry) ELSE JsonParse(text)
    IN IF ~aiData.ok THEN Threw
       ELSE Returned(<<analyzeStockWithGemini(s, aiData.object)>>)

\* the narrative entry the collaborator writes for a record
EntryFor(s) ==
    IF s.ticker = "AAA"
    THEN [present |-> TRUE, ticker |-> s.ticker, moatType |-> "Monopoly",
          isMonopoly |-> TRUE, riskGrade |-> 2, additionalFlags |-> <<>>]
    ELSE IF s.ticker = "BBB"
    THEN [present |-> TRUE, ticker |-> s.ticker, moatType |-> "Oligopoly",
          isMonopoly |-> FALSE, riskGrade |-> 7,
          additionalFlags |-> <<"AI_FLAG">>]
    ELSE [present |-> TRUE, ticker |-> s.ticker, moatType |-> "Commodity",
          isMonopoly |-> FALSE, riskGrade |-> 9, additionalFlags |-> <<>>]

Reverse(list) == [i \in 1..Len(list) |-> list[Len(list) + 1 - i]]
Aligned(batch) == [i \in 1..Len(batch) |-> EntryFor(batch[i])]

\* narrative arrays for a batch: one entry per record in input order, the
\* same in reverse order, one entry short, and none
NarrativeArrays(batch) ==
    { Aligned(batch), Reverse(Aligned(batch)),
      SubSeq(Aligned(batch), 1, Len(batch) - 1), <<>> }

\* object ("," object)*
Elements(a) ==
    [k \in 1..(IF a = <<>> THEN 0 ELSE 2 * Len(a) - 1) |->
        IF k % 2 = 1 THEN TokObject(a[(k + 1) \div 2]) ELSE TokComma]

ArrayText(a) == <<TokOpen>> \o Elements(a) \o <<TokClose>>
FencedText(a) == <<TokFenceJson>> \o ArrayText(a) \o <<TokFence>>
\* the array text without its closing bracket
TruncatedText(a) == <<TokOpen>> \o Elements(a)
\* the array text cut off inside a further object
CutText(a) ==
    <<TokOpen>> \o Elements(a)
       \o (IF a = <<>> THEN <<>> ELSE <<TokComma>>) \o <<TokCut>>

\* response texts the narrative call may return for a batch
ResponseTexts(batch) ==
    UNION { {ArrayText(a), FencedText(a), TruncatedText(a), CutText(a)} :
              a \in NarrativeArrays(batch) }
    \cup { <<>>, <<TokJunk>> }
    \cup { <<TokObject(EntryFor(batch[i]))>> : i \in 1..Len(batch) }

InitBatch ==
    /\ stock = StockAAA
    /\ aiEntry = AbsentEntry
    /\ fn = "none"
    /\ result = NoResult
    /\ AppInit("none")
    /\ stocks \in ExtractedBatches
    /\ responseText \in ResponseTexts(stocks)
    /\ batchFn = "none"
    /\ batchOut = NoOutcome

CallBatch ==
    /\ batchFn = "none"
    /\ batchFn' = "analyzeStocksWithGemini"
    /\ batchOut' = analyzeStocksWithGeminiCall(stocks, responseText)
    /\ UNCHANGED <<stocks, responseText>>
    /\ UNCHANGED <<scoreVars, appVars>>

CallStocks ==
    /\ batchFn = "none"
    /\ batchFn' = "analyzeStocks"
    /\ batchOut' = analyzeStocksCall(stocks, responseText)
    /\ UNCHANGED <<stocks, responseText>>
    /\ UNCHANGED <<scoreVars, appVars>>

CallStocksQuant ==
    /\ batchFn = "none"
    /\ batchFn' = "analyzeStocksQuant"
    /\ batchOut' = analyzeStocksQuantCall(stocks, responseText)
    /\ UNCHANGED <<stocks, responseText>>
    /\ UNCHANGED <<scoreVars, appVars>>

\* the per-record call, made for the first record of the batch
CallSingle ==
    /\ batchFn = "none"
    /\ stocks # <<>>
    /\ batchFn' = "analyzeStockWithGemini"
    /\ batchOut' = analyzeStockWithGeminiCall(stocks[1], responseText)
    /\ UNCHANGED <<stocks, responseText>>
    /\ UNCHANGED <<scoreVars, appVars>>

NextBatch == CallBatch \/ CallStocks \/ CallStocksQuant \/ CallSingle

SpecBatch == InitBatch /\ [][NextBatch]_vars

BatchFns == {"analyzeStocksWithGemini", "analyzeStocks", "analyzeStocksQuant"}

---------------------------------------------------------------------------
(* Claims about whole calls, checked under SpecBatch *)

\* the narrative array of the response, when the text is that of an array
Narrative == JsonParse(responseText)
IsNarrativeArray == Narrative.ok /\ Narrative.kind = "array"

\* the narrative array holds no entry for the i-th record
NoEntryFor(i) ==
    \A k \in 1..Len(Narrative.value) :
        Narrative.value[k].ticker # stocks[i].ticker

\* the narrative-supplied part of a result's red flags
NarrativeFlags(res) ==
    SelectSeq(res.redFlags, LAMBDA f : f \notin DeterministicFlags)

\* C13 (as claimed): if the narrative array has fewer entries than the
\* record array, the scoring function returns a complete result for every
\* record without throwing, and the records without an entry get the default
\* narrative fields: moat "Unknown", no monopoly (zero moat points).
C13_ShortNarrativeDefaults ==
    (batchFn \in BatchFns /\ IsNarrativeArray
     /\ Len(Narrative.value) < Len(stocks)) =>
        /\ ~batchOut.threw
        /\ Len(batchOut.results) = Len(stocks)
        /\ \A i \in 1..Len(stocks) :
              /\ batchOut.results[i].ticker = stocks[i].ticker
              /\ NoEntryFor(i) =>
                    /\ batchOut.results[i].moatType = "Unknown"
                    /\ NarrativeFlags(batchOut.results[i]) = <<>>
                    /\ (batchFn = "analyzeStocksWithGemini" =>
                           batchOut.results[i].score <= 70)

\* C14 (as claimed): when the narrative array holds an entry for every
\* ticker, in whatever order, every result's narrative-driven fields come
\* from the entry whose ticker equals the record's ticker.
C14_PairedByTicker ==
    (batchFn \in BatchFns /\ IsNarrativeArray
     /\ Len(Narrative.value) = Len(stocks)
     /\ \A i \in 1..Len(stocks) : ~NoEntryFor(i)) =>
        /\ ~batchOut.threw
        /\ \A i \in 1..Len(stocks) :
              LET own == FindByTicker(Narrative.value, stocks[i].ticker)
              IN /\ batchOut.results[i].moatType = own.moatType
                 /\ batchOut.results[i].riskGrade = own.riskGrade
                 /\ NarrativeFlags(batchOut.results[i]) = own.additionalFlags

\* C17 (as claimed): when the response text is not parseable as JSON, even
\* after stripping code fences and closing a truncated array, the engine
\* falls back to an empty narrative list: every record is scored with
\* default narrative fields and no exception aborts the batch.
C17_MalformedFallsBack ==
    (batchFn # "none" /\ stocks # <<>> /\ responseText # <<>>
     /\ ~JsonParse(StripFences(responseText)).ok
     /\ ~JsonParse(responseText \o <<TokClose>>).ok) =>
        /\ ~batchOut.threw
        /\ Len(batchOut.results) =
             (IF batchFn = "analyzeStockWithGemini" THEN 1 ELSE Len(stocks))
        /\ \A i \in 1..Len(batchOut.results) :
              /\ batchOut.results[i].moatType \in {"Unknown", "General"}
              /\ NarrativeFlags(batchOut.results[i]) = <<>>

---------------------------------------------------------------------------
(* Claims about the upload handlers, checked under SpecUpload *)

AllFinished == \A r \in 1..nextRun : Finished(r)

\* C4 (as claimed): when a run is started while an earlier run is still in
\* flight, then after both complete the displayed results are those of the
\* last-started run, for every interleaving of their completions.
C4_LastStartedWins ==
    (nextRun >= 2 /\ AllFinished /\ runs[nextRun].pc = "done") =>
        analyzedStocks = SortByScore(runs[nextRun].results)

\* C11 (as claimed): given a batch of N >= 1 extracted records, an upload
\* run publishes exactly N results, one per input record with that record's
\* ticker, none dropped, truncated or duplicated.
C11_EveryRecordPublished ==
    (publisher # 0 /\ Len(runs[publisher].parsed) >= 1) =>
        LET input == runs[publisher].parsed
        IN /\ Len(analyzedStocks) = Len(input)
           /\ \A i \in 1..Len(input) :
                 Cardinality({j \in 1..Len(analyzedStocks) :
                                analyzedStocks[j].ticker = input[i].ticker}) = 1

\* the position of a published result's record in the extracted input
InputPos(input, ticker) ==
    CHOOSE i \in 1..Len(input) : input[i].ticker = ticker

\* C12: the published result list is ordered by score non-increasing, and
\* results of equal score keep the relative order their records had in the
\* extracted input.
C12_PublishedSortedStable ==
    publisher # 0 =>
        LET input == runs[publisher].parsed
        IN \A i, j \in 1..Len(analyzedStocks) :
              i < j =>
                /\ analyzedStocks[i].score >= analyzedStocks[j].score
                /\ (analyzedStocks[i].score = analyzedStocks[j].score =>
                       InputPos(input, analyzedStocks[i].ticker)
                         < InputPos(input, analyzedStocks[j].ticker))

\* a published list the sort has reordered and that holds a tie
C12_Witness ==
    /\ publisher # 0
    /\ runs[publisher].parsed = <<StockCCC, StockBBB, StockAAA>>
    /\ Len(analyzedStocks) = 3
    /\ analyzedStocks[1].ticker = "AAA"
    /\ analyzedStocks[2].ticker = "CCC"
    /\ analyzedStocks[3].ticker = "BBB"
    /\ analyzedStocks[2].score = analyzedStocks[3].score

\* C15: when an upload run fails at any step, an error message is set and
\* the published result list and the current view are left as they were; the
\* published list only ever changes to the complete result list of a run
\* that has finished its analysis.
C15_FailureLeavesResults ==
    [][ /\ \A r \in 1..MaxRuns :
              (runs[r].pc # "failed" /\ runs'[r].pc = "failed") =>
                 /\ error' # "null"
                 /\ analyzedStocks' = analyzedStocks
                 /\ publisher' = publisher
                 /\ currentView' = currentView
        /\ (analyzedStocks' # analyzedStocks =>
              \E r \in 1..MaxRuns :
                 /\ runs[r].pc # "done" /\ runs'[r].pc = "done"
                 /\ Len(analyzedStocks') = Len(runs'[r].results)
                 /\ (handler \in LoopHandlers =>
                        Len(runs'[r].results) = Len(runs'[r].parsed))) ]_vars

\* a run of the per-record loop that failed after it had analysed a record,
\* while the list of an earlier run is on display
C15_Witness ==
    /\ handler = "handleFileUploadLoop"
    /\ nextRun = 2
    /\ runs[2].pc = "failed"
    /\ Len(runs[2].results) >= 1
    /\ Len(runs[2].results) < Len(runs[2].parsed)
    /\ publisher = 1
    /\ analyzedStocks = SortByScore(runs[1].results)
    /\ analyzedStocks # <<>>
    /\ error = "analysis failed"

\* C16 (as claimed): when the extraction returns no record, the run ends
\* with an error message, the analysis is never invoked for it and the
\* published results are not replaced, in every upload handler.
C16_EmptyExtractionIsError ==
    \A r \in 1..MaxRuns :
        (runs[r].extracted /\ runs[r].parsed = <<>>) =>
            /\ runs[r].pc = "failed"
            /\ publisher # r

TypeOKUpload ==
    /\ handler \in Handlers
    /\ nextRun \in 0..MaxRuns
    /\ publisher \in 0..MaxRuns
    /\ isProcessing \in BOOLEAN
    /\ \A r \in 1..MaxRuns :
          runs[r].pc \in {"idle", "read", "hung", "parse", "analyze", "done",
                          "failed"}

\* C25 (as claimed): in any published result list no record whose verdict is
\* DESTROY has a score strictly greater than that of a record that passed
\* the firewall (every scoring function gives DESTROY exactly to the records
\* that failed it), whichever scoring function fed the sort.
C25_DestroyNeverOutranksPassing ==
    publisher # 0 =>
        \A i, j \in 1..Len(analyzedStocks) :
            (/\ analyzedStocks[i].verdict = DESTROY
             /\ analyzedStocks[j].verdict # DESTROY) =>
                ~(analyzedStocks[i].score > analyzedStocks[j].score)

\* C26 (as claimed): the processing flag is true in every state in which at
\* least one run is in flight, overlapping runs included.
C26_FlagCoversRunsInFlight ==
    (\E r \in 1..MaxRuns : InFlight(r)) => isProcessing

\* C27 (as claimed): every started run eventually reaches its finally block
\* and resets the processing flag, whether the file read, the extraction or
\* the analysis succeeds or fails.  Every event of a run moves it towards
\* its finally block, so under the fairness of SpecUploadLive the run gets
\* there exactly when it never rests at a point from which no event resumes
\* it: a started run that has not reached finally has an event pending.
C27_EveryRunResetsFlag ==
    \A r \in 1..MaxRuns : InFlight(r) => ENABLED RunStep(r)

\* C30: in the audit/dashboard app the dashboard is shown only when the audit
\* record is set; handleStartAudit on a form with missing liquid cash or
\* skill leaves the view 'audit' and the record null; the only step that
\* switches to the dashboard is the one that sets the record; and no step
\* resets the record.
C30_DashboardNeedsAudit ==
    [][ (handler \in AuditHandlers) =>
          ( /\ (currentView' = "dashboard" => audit')
            /\ (peaceStatus' = "DATA BREACH" =>
                   (currentView' = "audit" /\ ~audit'))
            /\ ((currentView # "dashboard" /\ currentView' = "dashboard") =>
                   (~audit /\ audit' /\ peaceStatus' = "SECURED"))
            /\ (audit => audit') ) ]_vars

\* handleStartAudit has rejected an incomplete form
C30_Witness ==
    /\ handler \in AuditHandlers
    /\ peaceStatus = "DATA BREACH"
    /\ currentView = "audit"
    /\ ~audit

====
